---- MODULE Spec2Model ----
(***************************************************************************)
(* Trading-Earnings-Calculator: the Monte Carlo simulation core            *)
(* (calculateMonthlyProfit, accumulateProfits, runMonteCarlo) and the rate *)
(* metrics runSimulation derives from its result.                          *)
(*                                                                         *)
(* Arithmetic.  Money is an integer count of 1/Unit dollars, where Unit is *)
(* the riskPerTrade denominator raised to the number of trades a lifetime  *)
(* can make, so every product and quotient of the code is exact.  The      *)
(* rounding of IEEE doubles is not modelled.  riskPerTrade is a pair       *)
(* <<numerator, denominator>>; winRate and the random draws are counted in *)
(* halves (winRate 2 is 100%, a draw is 0 or 1, i.e. 0.0 or 0.5).          *)
(*                                                                         *)
(* Two versions of the core are in the repository; variant selects one:    *)
(*   "app"  : src/app.js  lines 973-1091                                   *)
(*   "main" : src/main.js lines 5-122                                      *)
(*                                                                         *)
(* The page (src/unnamed/part_001): the Run button and input validation,   *)
(* the report runSimulation builds from the returned runs (scenarios,      *)
(* adaptive histogram), the bucket drill-down, and calculateAnnualizedROI. *)
(* Spec is the simulation core followed by the report; SpecStats is the    *)
(* report and the drill-down on drawn sets of returned runs; SpecROI is    *)
(* calculateAnnualizedROI alone; SpecUI starts at the click on Run.        *)
(***************************************************************************)
EXTENDS Integers, Sequences, FiniteSets, TLC

VARIABLES variant, params, pc, runIdx, allRunsResults, monthIdx,
          currentBalance, resultsArray, tradeIdx, tradeBalance, lastDraw,
          simulationResults, survivingRuns, totalRuinCount, profitableCount,
          losingCount,
          buckets, subBuckets, drillRuns, activeView, isSummaryPrinting,
          simulationButtonDisabled, printed, runMonteCarloCalls, clicks,
          roiInput, roiOutput,
          drillPc, drillOwner, drillLinesInSummary, drillLinesInDetails

vars == <<variant, params, pc, runIdx, allRunsResults, monthIdx,
          currentBalance, resultsArray, tradeIdx, tradeBalance, lastDraw,
          simulationResults, survivingRuns, totalRuinCount, profitableCount,
          losingCount,
          buckets, subBuckets, drillRuns, activeView, isSummaryPrinting,
          simulationButtonDisabled, printed, runMonteCarloCalls, clicks,
          roiInput, roiOutput,
          drillPc, drillOwner, drillLinesInSummary, drillLinesInDetails>>

\* The page: histogram, drill-down view, print lock, Run button, output.
viewVars == <<buckets, subBuckets, drillRuns, activeView>>

pageVars == <<isSummaryPrinting, simulationButtonDisabled, printed,
              runMonteCarloCalls, clicks>>

roiVars == <<roiInput, roiOutput>>

\* A drill-down in progress: where it stands, the runSimulation invocation
\* (numbered by clicks) that opened it, and the invocations whose drill-down
\* lines are in the summary and details view of the latest invocation.
drillVars == <<drillPc, drillOwner, drillLinesInSummary, drillLinesInDetails>>

----------------------------------------------------------------------------
(* Bounds and input domains *)

MaxTimeline == 2
MaxRuns == 2
MaxMonths == 4
MaxSmallRuns == 3
HistogramRuns == 11
LargeRuns == 51
MaxClicks == 2

VariantSet == {"app", "main"}
StartingBalanceSet == {-1, 0, 1, 2}
RiskPerTradeSet == {<<1, 2>>, <<1, 1>>}
TradesPerWeekSet == {0, 1}
WinRateSet == {0, 1, 2}
DrawSet == {0, 1}
RiskToRewardSet == {1, 2}
FeeSet == {0, 1, 3}
ExpensesSet == {0, 1}
ExpensesBeginSet == -1 .. MaxTimeline
StatBalances == <<-2, 0, 1, 20>>
LargeBalances == <<0, 1, 5, 20>>
MaxFew == 3
ArrangementSet == {"asc", "desc"}
RoiFinalBalanceSet == {-2, -1, 0, 1, 2, 3, 8}
RoiStartingBalanceSet == {-1, 0, 1, 2}
RoiTimelineSet == {-6, 0, 3, 6, 12}

WeeksPerMonth == 4

RECURSIVE Pow(_, _)
Pow(b, e) == IF e <= 0 THEN 1 ELSE b * Pow(b, e - 1)

\* Number of money units in one dollar for a parameter set.
Unit(risk, tpw, timeline) == Pow(risk[2], WeeksPerMonth * tpw * timeline)

----------------------------------------------------------------------------
(* calculateMonthlyProfit *)

TradesPerMonth(tradesPerWeek) == tradesPerWeek * WeeksPerMonth

\* Mutant of TradeLoopContinues: the ruin check is missing.
TradeLoopIgnoresRuin(i, tradesPerMonth, balance) == i < tradesPerMonth

\* for (i < tradesPerMonth) { if (currentBalance <= 0) break; ... }
TradeLoopContinues(i, tradesPerMonth, balance) ==
    i < tradesPerMonth /\ ~(balance <= 0)

\* Mutant of AmountRisked: the whole balance is risked whatever riskPercentage is.
AmountRiskedWholeBalance(balance, risk) == balance

AmountRisked(balance, risk) == (balance * risk[1]) \div risk[2]

\* Math.random() < winPercentage
IsWin(draw, winPercentage) == draw < winPercentage

\* Mutant of TradeProfit: the fee is added to a win instead of taken from it.
TradeProfitFeeAdded(amountRisked, riskToRewardRatio, fee) ==
    (amountRisked * riskToRewardRatio) + (amountRisked * fee)

TradeProfit(amountRisked, riskToRewardRatio, fee) ==
    (amountRisked * riskToRewardRatio) - (amountRisked * fee)

\* Mutant of TradeLoss: a losing trade pays no fee.
TradeLossWithoutFee(amountRisked, fee) == amountRisked

TradeLoss(amountRisked, fee) == amountRisked + (amountRisked * fee)

BalanceAfterTrade(balance, draw, p) ==
    LET amountRisked == AmountRisked(balance, p.riskPerTrade)
    IN  IF IsWin(draw, p.winRate)
        THEN balance + TradeProfit(amountRisked, p.riskToReward, p.myFeePercentage)
        ELSE balance - TradeLoss(amountRisked, p.myFeePercentage)

\* return currentBalance - accountBalance
MonthlyProfitReturn(finalBalance, accountBalance) == finalBalance - accountBalance

----------------------------------------------------------------------------
(* accumulateProfits *)

\* Mutant of ExpensesActiveApp: the 0-based index is compared with the month number.
ExpensesActiveZeroBased(i, expensesBegin) == expensesBegin > 0 /\ i >= expensesBegin

ExpensesActiveApp(i, expensesBegin) == expensesBegin > 0 /\ i + 1 >= expensesBegin

\* Mutant of ExpensesActiveMain: expensesBegin = 0 switches the expenses on.
ExpensesActiveMainFromZero(i, expensesBegin) ==
    expensesBegin >= 0 /\ i + 1 >= expensesBegin

ExpensesActiveMain(i, expensesBegin) == expensesBegin >= 1 /\ i + 1 >= expensesBegin

ExpensesActive(v, i, expensesBegin) ==
    IF v = "app" THEN ExpensesActiveApp(i, expensesBegin)
                 ELSE ExpensesActiveMain(i, expensesBegin)

NetMonthlyProfit(v, i, gross, p) ==
    IF ExpensesActive(v, i, p.expensesBegin)
    THEN gross - p.totalMonthlyExpenses
    ELSE gross

\* Mutants of MonthRecord: the balance forgets the expenses; expenses are
\* reported only for a month with a trading profit.
MonthRecordBalanceFromGross(v, i, gross, balance, p) ==
    LET net == NetMonthlyProfit(v, i, gross, p)
    IN  [grossProfit |-> gross,
         expensesDeducted |-> gross - net,
         netProfit |-> net,
         endBalance |-> balance + gross]

MonthRecordExpensesOnProfitOnly(v, i, gross, balance, p) ==
    LET net == NetMonthlyProfit(v, i, gross, p)
    IN  [grossProfit |-> gross,
         expensesDeducted |-> IF gross > 0 THEN gross - net ELSE 0,
         netProfit |-> net,
         endBalance |-> balance + net]

MonthRecord(v, i, gross, balance, p) ==
    LET net == NetMonthlyProfit(v, i, gross, p)
    IN  [grossProfit |-> gross,
         expensesDeducted |-> gross - net,
         netProfit |-> net,
         endBalance |-> balance + net]

\* Mutant of LifetimeBreaks: a balance of exactly 0 does not end the lifetime.
LifetimeBreaksBelowZero(balance) == balance < 0

\* Mutant of LifetimeBreaks: the lifetime goes on after ruin.
LifetimeNeverBreaks(balance) == FALSE

\* if (currentBalance <= 0) break;
LifetimeBreaks(balance) == balance <= 0

----------------------------------------------------------------------------
(* runMonteCarlo *)

SurvivedApp(finalMonth) == finalMonth.endBalance > 0

SurvivedMain(finalMonth) == TRUE

\* Mutant of RunResult: finalBalance is read from the first month.
RunResultFromFirstMonth(v, singleRunResult) ==
    IF Len(singleRunResult) > 0
    THEN [finalBalance |-> singleRunResult[1].endBalance,
          survived |-> IF v = "app" THEN SurvivedApp(singleRunResult[1]) ELSE TRUE,
          monthlyData |-> singleRunResult]
    ELSE [finalBalance |-> 0, survived |-> FALSE, monthlyData |-> <<>>]

RunResult(v, singleRunResult) ==
    IF Len(singleRunResult) > 0
    THEN LET finalMonth == singleRunResult[Len(singleRunResult)]
         IN  [finalBalance |-> finalMonth.endBalance,
              survived |-> IF v = "app" THEN SurvivedApp(finalMonth)
                                        ELSE SurvivedMain(finalMonth),
              monthlyData |-> singleRunResult]
    ELSE [finalBalance |-> 0, survived |-> FALSE, monthlyData |-> <<>>]

\* Mutant of MonteCarloLoopContinues: one iteration too many.
MonteCarloLoopOffByOne(i, simulationRuns) == i <= simulationRuns

MonteCarloLoopContinues(i, simulationRuns) == i < simulationRuns

----------------------------------------------------------------------------
(* runSimulation: summary statistics *)

RECURSIVE InsertByFinalBalance(_, _)
InsertByFinalBalance(run, sorted) ==
    IF sorted = <<>> THEN <<run>>
    ELSE IF run.finalBalance - sorted[Len(sorted)].finalBalance >= 0
         THEN Append(sorted, run)
         ELSE Append(InsertByFinalBalance(run, SubSeq(sorted, 1, Len(sorted) - 1)),
                     sorted[Len(sorted)])

\* simulationResults.sort((a, b) => a.finalBalance - b.finalBalance), a stable sort
RECURSIVE SortByFinalBalance(_)
SortByFinalBalance(runs) ==
    IF runs = <<>> THEN <<>>
    ELSE InsertByFinalBalance(runs[Len(runs)],
                              SortByFinalBalance(SubSeq(runs, 1, Len(runs) - 1)))

IsSurvivor(run) == run.survived

IsRuined(run) == run.finalBalance <= 0

IsProfitable(run, p) == run.finalBalance > p.startingBalance

IsLosing(run, p) == run.finalBalance > 0 /\ run.finalBalance < p.startingBalance

\* simulationResults.filter(...) keeps the order of the kept runs
SurvivingRuns(runs) == SelectSeq(runs, IsSurvivor)

TotalRuinCount(runs) == Len(SelectSeq(runs, IsRuined))

ProfitableCount(runs, p) == LET K(r) == IsProfitable(r, p) IN Len(SelectSeq(runs, K))

LosingCount(runs, p) == LET K(r) == IsLosing(r, p) IN Len(SelectSeq(runs, K))

----------------------------------------------------------------------------
(* runSimulation: the scenarios picked from the sorted runs *)

Min2(a, b) == IF a < b THEN a ELSE b

\* simulationResults[0]
WorstCaseOfAll(sorted) == sorted[1]

\* simulationResults[simulationResults.length - 1]
BestCaseOfAll(sorted) == sorted[Len(sorted)]

\* Mutant of MedianOfAll: the lower median for an even number of runs.
MedianOfAllLower(sorted) == sorted[((Len(sorted) - 1) \div 2) + 1]

\* simulationResults[Math.floor(simulationResults.length / 2)]
MedianOfAll(sorted) == sorted[(Len(sorted) \div 2) + 1]

----------------------------------------------------------------------------
(* runSimulation: the adaptive histogram.  Bucket bounds are kept as       *)
(* numerators over NumCoreBuckets, sub-bucket bounds as numerators over    *)
(* NumSubBuckets, and a percentage as the pair <<count * 100, total>>.     *)

MinRunsForHistogram == 10
CutoffPercent == 98
NumCoreBuckets == 9
NumSubBuckets == 10
ClickablePercent == 25
MaxSimulationRuns == 100000
MonthsPerYear == 12

\* (count / total) * 100
Percentage(count, total) == <<count * 100, total>>

\* a.percentage >= b.percentage
PercentageAtLeast(a, b) == a[1] * b[2] >= b[1] * a[2]

\* Math.floor(totalRuns * 0.98)
CutoffIndex(totalRuns) == (totalRuns * CutoffPercent) \div 100

\* sortedRuns[cutoffIndex].finalBalance
MaxBalanceForBuckets(sorted) == sorted[CutoffIndex(Len(sorted)) + 1].finalBalance

\* Mutant of CoreBucketIndex: the index is one too high.
CoreBucketIndexOffByOne(finalBalance, minBalance, coreRange) ==
    Min2(NumCoreBuckets - 1,
         1 + ((NumCoreBuckets * (finalBalance - minBalance)) \div coreRange))

\* Math.min(numCoreBuckets - 1, Math.floor((finalBalance - minBalance) / coreBucketSize))
CoreBucketIndex(finalBalance, minBalance, coreRange) ==
    Min2(NumCoreBuckets - 1,
         (NumCoreBuckets * (finalBalance - minBalance)) \div coreRange)

\* minBalance + i * coreBucketSize
CoreBucketMin(i, minBalance, coreRange) == NumCoreBuckets * minBalance + i * coreRange

\* Mutant of CoreBucketMax: every core bucket is two widths long.
CoreBucketMaxTwoWidths(i, minBalance, coreRange) ==
    NumCoreBuckets * minBalance + (i + 2) * coreRange

\* bucketMin + coreBucketSize
CoreBucketMax(i, minBalance, coreRange) ==
    NumCoreBuckets * minBalance + (i + 1) * coreRange

\* Mutant of PushRun: the run is put in front of the bucket's runs.
UnshiftRun(runs, run) == <<run>> \o runs

\* bucket.runs.push(run)
PushRun(runs, run) == Append(runs, run)

\* for (const run of sortedRuns) { ... runs.push(run) ... }, for the runs of one bucket
RECURSIVE PushAll(_)
PushAll(selected) ==
    IF selected = <<>> THEN <<>>
    ELSE PushRun(PushAll(SubSeq(selected, 1, Len(selected) - 1)), selected[Len(selected)])

\* The buckets of "if (totalRuns > 10) { ... }" in the order they are built.
AdaptiveHistogram(sorted) ==
    LET totalRuns == Len(sorted)
    IN  IF ~(totalRuns > MinRunsForHistogram) THEN <<>>
        ELSE
        LET maxBalanceForBuckets == MaxBalanceForBuckets(sorted)
            minBalance == WorstCaseOfAll(sorted).finalBalance
            coreRange == maxBalanceForBuckets - minBalance
        IN  IF ~(coreRange > 0) THEN <<>>
            ELSE
            LET Core(i) ==
                    LET InBucket(r) ==
                            /\ r.finalBalance < maxBalanceForBuckets
                            /\ CoreBucketIndex(r.finalBalance, minBalance, coreRange) = i
                        runs == PushAll(SelectSeq(sorted, InBucket))
                    IN  [min |-> CoreBucketMin(i, minBalance, coreRange),
                         max |-> CoreBucketMax(i, minBalance, coreRange),
                         count |-> Len(runs),
                         runs |-> runs,
                         isOutlierBucket |-> FALSE,
                         percentage |-> Percentage(Len(runs), totalRuns)]
                InOutlier(r) == ~(r.finalBalance < maxBalanceForBuckets)
                outlierRuns == PushAll(SelectSeq(sorted, InOutlier))
                outlierBucket ==
                    [min |-> NumCoreBuckets * maxBalanceForBuckets,
                     max |-> NumCoreBuckets * BestCaseOfAll(sorted).finalBalance,
                     count |-> Len(outlierRuns),
                     runs |-> outlierRuns,
                     isOutlierBucket |-> TRUE,
                     percentage |-> Percentage(Len(outlierRuns), totalRuns)]
                core == [i \in 1 .. NumCoreBuckets |-> Core(i - 1)]
            IN  IF outlierBucket.count > 0 THEN Append(core, outlierBucket) ELSE core

\* One step of the stable sort (a, b) => b.percentage - a.percentage.
RECURSIVE InsertByPercentage(_, _)
InsertByPercentage(sortedPart, b) ==
    IF sortedPart = <<>> THEN <<b>>
    ELSE LET last == sortedPart[Len(sortedPart)]
         IN  IF PercentageAtLeast(last.percentage, b.percentage)
             THEN Append(sortedPart, b)
             ELSE Append(InsertByPercentage(SubSeq(sortedPart, 1, Len(sortedPart) - 1), b),
                         last)

\* buckets.sort((a, b) => b.percentage - a.percentage)
RECURSIVE SortByPercentage(_)
SortByPercentage(seq) ==
    IF seq = <<>> THEN <<>>
    ELSE InsertByPercentage(SortByPercentage(SubSeq(seq, 1, Len(seq) - 1)), seq[Len(seq)])

\* if (bucket.percentage >= 25 && bucket.runs.length > 1): the line gets a callback
BucketClickable(bucket) ==
    /\ bucket.percentage[1] >= ClickablePercent * bucket.percentage[2]
    /\ Len(bucket.runs) > 1

----------------------------------------------------------------------------
(* displayBucketDistribution *)

\* Math.min(numSubBuckets - 1, Math.floor((finalBalance - min) / subBucketSize))
SubBucketIndex(finalBalance, min, range) ==
    Min2(NumSubBuckets - 1, (NumSubBuckets * (finalBalance - min)) \div range)

\* Mutant of SubBucketPercentage: the share is taken of all the runs.
SubBucketPercentageOfAllRuns(count, bucketSize, totalRuns) == Percentage(count, totalRuns)

\* (sb.count / bucketRuns.length) * 100
SubBucketPercentage(count, bucketSize, totalRuns) == Percentage(count, bucketSize)

\* The sub-buckets in the order they are printed; a sub-bucket line is
\* printed by console.log(htmlMessage) with no callback, so it is not clickable.
SubBucketDistribution(bucketRuns, totalRuns) ==
    LET min == bucketRuns[1].finalBalance
        max == bucketRuns[Len(bucketRuns)].finalBalance
        range == max - min
    IN  IF range > 0 /\ Len(bucketRuns) > 1
        THEN LET Sub(i) ==
                     LET InSub(r) == SubBucketIndex(r.finalBalance, min, range) = i
                         count == Len(SelectSeq(bucketRuns, InSub))
                     IN  [min |-> NumSubBuckets * min + i * range,
                          max |-> NumSubBuckets * min + (i + 1) * range,
                          count |-> count,
                          percentage |-> SubBucketPercentage(count, Len(bucketRuns), totalRuns),
                          clickable |-> FALSE]
             IN  SortByPercentage([i \in 1 .. NumSubBuckets |-> Sub(i - 1)])
        ELSE <<>>

----------------------------------------------------------------------------
(* calculateAnnualizedROI.  A return is the pair <<numerator, denominator>> *)
(* with a positive denominator; timelines are whole divisors of a year, so  *)
(* that 1 / years is a whole exponent.                                      *)

RoiEqual(a, b) == a[1] * b[2] = b[1] * a[2]

\* totalReturn * 100
TotalReturnPercent(finalBalance, startingBalance) ==
    <<(finalBalance - startingBalance) * 100, startingBalance>>

CalculateAnnualizedROI(finalBalance, startingBalance, timelineMonths) ==
    IF startingBalance <= 0 \/ timelineMonths <= 0 THEN <<0, 1>>
    ELSE IF timelineMonths <= 0
         THEN TotalReturnPercent(finalBalance, startingBalance)
         ELSE LET e == MonthsPerYear \div timelineMonths
                  den == Pow(startingBalance, e)
              IN  IF finalBalance < 0
                  THEN <<(den - Pow(-finalBalance, e)) * 100, den>>
                  ELSE <<(Pow(finalBalance, e) - den) * 100, den>>

----------------------------------------------------------------------------
(* The state machine *)

\* outputDiv.innerHTML = "": no histogram, no drill-down, the summary view.
ViewEmpty ==
    /\ buckets = <<>>
    /\ subBuckets = <<>>
    /\ drillRuns = <<>>
    /\ activeView = "summary"

DrillIdle ==
    /\ drillPc = "idle"
    /\ drillOwner = 0
    /\ drillLinesInSummary = {}
    /\ drillLinesInDetails = {}

RoiIdle ==
    /\ roiInput = [finalBalance |-> 0, startingBalance |-> 0, timelineMonths |-> 0]
    /\ roiOutput = <<>>

Init ==
    /\ variant \in VariantSet
    /\ \E sb \in StartingBalanceSet, risk \in RiskPerTradeSet,
          tpw \in TradesPerWeekSet, wr \in WinRateSet, rr \in RiskToRewardSet,
          fee \in FeeSet, exp \in ExpensesSet, eb \in ExpensesBeginSet,
          tl \in 0 .. MaxTimeline, runs \in 0 .. MaxRuns :
        /\ runs * tl <= MaxMonths
        /\ params = [startingBalance |-> sb * Unit(risk, tpw, tl),
                     riskPerTrade |-> risk,
                     tradesPerWeek |-> tpw,
                     winRate |-> wr,
                     riskToReward |-> rr,
                     totalMonthlyExpenses |-> exp * Unit(risk, tpw, tl),
                     expensesBegin |-> eb,
                     simulationTimeline |-> tl,
                     simulationRuns |-> runs,
                     myFeePercentage |-> fee]
    /\ pc = "mc"
    /\ runIdx = 0
    /\ allRunsResults = <<>>
    /\ monthIdx = 0
    /\ currentBalance = 0
    /\ resultsArray = <<>>
    /\ tradeIdx = 0
    /\ tradeBalance = 0
    /\ lastDraw = 0
    /\ simulationResults = <<>>
    /\ survivingRuns = <<>>
    /\ totalRuinCount = 0
    /\ profitableCount = 0
    /\ losingCount = 0
    /\ ViewEmpty
    /\ isSummaryPrinting = FALSE
    /\ simulationButtonDisabled = TRUE
    /\ printed = {"running"}
    /\ runMonteCarloCalls = 1
    /\ clicks = 1
    /\ RoiIdle
    /\ DrillIdle

statsVars == <<simulationResults, survivingRuns, totalRuinCount,
               profitableCount, losingCount>>

\* runMonteCarlo: one more iteration; accumulateProfits is entered.
RunBegin ==
    /\ pc = "mc"
    /\ MonteCarloLoopContinues(runIdx, params.simulationRuns)
    /\ params.simulationRuns <= MaxRuns
    /\ currentBalance' = params.startingBalance
    /\ resultsArray' = <<>>
    /\ monthIdx' = 0
    /\ pc' = "acc"
    /\ UNCHANGED <<variant, params, runIdx, allRunsResults, tradeIdx,
                   tradeBalance, lastDraw>>
    /\ UNCHANGED statsVars
    /\ UNCHANGED <<viewVars, pageVars, roiVars, drillVars>>

\* accumulateProfits: one more month; calculateMonthlyProfit is entered.
MonthBegin ==
    /\ pc = "acc"
    /\ monthIdx < params.simulationTimeline
    /\ tradeBalance' = currentBalance
    /\ tradeIdx' = 0
    /\ pc' = "trade"
    /\ UNCHANGED <<variant, params, runIdx, allRunsResults, monthIdx,
                   currentBalance, resultsArray, lastDraw>>
    /\ UNCHANGED statsVars
    /\ UNCHANGED <<viewVars, pageVars, roiVars, drillVars>>

\* calculateMonthlyProfit: one trade, decided by one random draw.
Trade ==
    /\ pc = "trade"
    /\ TradeLoopContinues(tradeIdx, TradesPerMonth(params.tradesPerWeek), tradeBalance)
    /\ \E draw \in DrawSet :
        /\ tradeBalance' = BalanceAfterTrade(tradeBalance, draw, params)
        /\ lastDraw' = draw
    /\ tradeIdx' = tradeIdx + 1
    /\ UNCHANGED <<variant, params, pc, runIdx, allRunsResults, monthIdx,
                   currentBalance, resultsArray>>
    /\ UNCHANGED statsVars
    /\ UNCHANGED <<viewVars, pageVars, roiVars, drillVars>>

\* calculateMonthlyProfit returns; accumulateProfits finishes the month.
MonthEnd ==
    /\ pc = "trade"
    /\ ~TradeLoopContinues(tradeIdx, TradesPerMonth(params.tradesPerWeek), tradeBalance)
    /\ LET gross == MonthlyProfitReturn(tradeBalance, currentBalance)
           rec == MonthRecord(variant, monthIdx, gross, currentBalance, params)
       IN  /\ currentBalance' = rec.endBalance
           /\ resultsArray' = Append(resultsArray, rec)
           /\ IF LifetimeBreaks(rec.endBalance)
              THEN pc' = "acc_ret" /\ monthIdx' = monthIdx
              ELSE pc' = "acc" /\ monthIdx' = monthIdx + 1
    /\ UNCHANGED <<variant, params, runIdx, allRunsResults, tradeIdx,
                   tradeBalance, lastDraw>>
    /\ UNCHANGED statsVars
    /\ UNCHANGED <<viewVars, pageVars, roiVars, drillVars>>

\* accumulateProfits returns; runMonteCarlo pushes the RunResult.
RunEnd ==
    /\ \/ pc = "acc_ret"
       \/ pc = "acc" /\ ~(monthIdx < params.simulationTimeline)
    /\ allRunsResults' = Append(allRunsResults, RunResult(variant, resultsArray))
    /\ runIdx' = runIdx + 1
    /\ pc' = "mc"
    /\ UNCHANGED <<variant, params, monthIdx, currentBalance, resultsArray,
                   tradeIdx, tradeBalance, lastDraw>>
    /\ UNCHANGED statsVars
    /\ UNCHANGED <<viewVars, pageVars, roiVars, drillVars>>

\* runMonteCarlo returns; runSimulation sorts the runs, picks the scenarios,
\* counts the runs and builds the histogram.  The reduce that picks the
\* average scenario has no initial value and throws on an empty array.
Report ==
    /\ pc = "mc"
    /\ ~MonteCarloLoopContinues(runIdx, params.simulationRuns)
    /\ LET sorted == SortByFinalBalance(allRunsResults)
       IN  /\ simulationResults' = sorted
           /\ IF sorted = <<>>
              THEN /\ pc' = "threw"
                   /\ UNCHANGED <<survivingRuns, totalRuinCount, profitableCount,
                                  losingCount, buckets, isSummaryPrinting, printed>>
              ELSE /\ pc' = "done"
                   /\ survivingRuns' = SurvivingRuns(sorted)
                   /\ totalRuinCount' = TotalRuinCount(sorted)
                   /\ profitableCount' = ProfitableCount(sorted, params)
                   /\ losingCount' = LosingCount(sorted, params)
                   /\ buckets' = AdaptiveHistogram(sorted)
                   /\ isSummaryPrinting' = TRUE
                   /\ printed' = printed \cup {"results"}
    /\ UNCHANGED <<variant, params, runIdx, allRunsResults, monthIdx,
                   currentBalance, resultsArray, tradeIdx, tradeBalance, lastDraw>>
    /\ UNCHANGED <<subBuckets, drillRuns, activeView, simulationButtonDisabled,
                   runMonteCarloCalls, clicks, roiVars, drillVars>>

coreVars == <<variant, params, runIdx, allRunsResults, monthIdx,
              currentBalance, resultsArray, tradeIdx, tradeBalance, lastDraw>>

\* runSimulation prints the summary (the buckets by falling percentage),
\* releases the print lock, prints "Simulation Complete" and enables Run.
PrintSummary ==
    /\ pc = "done"
    /\ buckets' = SortByPercentage(buckets)
    /\ isSummaryPrinting' = FALSE
    /\ printed' = printed \cup {"complete"}
    /\ simulationButtonDisabled' = FALSE
    /\ pc' = "complete"
    /\ UNCHANGED <<coreVars, statsVars, subBuckets, drillRuns, activeView,
                   runMonteCarloCalls, clicks, roiVars, drillVars>>

\* Mutant of ListenerRuns: the click handler ignores the print lock.
ListenerIgnoresLock(summaryPrinting) == TRUE

\* The click listener of a clickable line: if (!isSummaryPrinting) onClickCallback();
ListenerRuns(summaryPrinting) == ~summaryPrinting

\* The clickable scenario lines: average, median, best and worst case.  The
\* average scenario is the run whose balance is nearest the mean; any run
\* can be it.
ScenarioRuns == {simulationResults[k] : k \in DOMAIN simulationResults}

\* A click on a line of the summary invokes the line's callback: the line
\* has been printed, its listener lets the click through, and no view
\* transition is under way (isViewTransitioning).
CanClickLine ==
    /\ pc \in {"done", "complete"}
    /\ ListenerRuns(isSummaryPrinting)
    /\ activeView = "summary"
    /\ drillPc = "idle"

\* A click on a clickable bucket line: displayBucketDistribution(title,
\* bucket.runs) up to its first await.  The line is on the page from the
\* moment the summary prints it.
ClickBucket ==
    /\ CanClickLine
    /\ \E i \in DOMAIN buckets :
        /\ BucketClickable(buckets[i])
        /\ drillRuns' = buckets[i].runs
        /\ subBuckets' = SubBucketDistribution(buckets[i].runs, Len(simulationResults))
    /\ activeView' = "details"
    /\ drillPc' = "printing"
    /\ drillOwner' = clicks
    /\ drillLinesInDetails' = {}
    /\ UNCHANGED <<coreVars, statsVars, pc, buckets, pageVars, roiVars,
                   drillLinesInSummary>>

\* A click on a scenario line: displayMonthlyBreakdown(title, monthlyData)
\* up to its first await.
ClickScenario ==
    /\ CanClickLine
    /\ \E run \in ScenarioRuns : drillRuns' = <<run>>
    /\ subBuckets' = <<>>
    /\ activeView' = "details"
    /\ drillPc' = "printing"
    /\ drillOwner' = clicks
    /\ drillLinesInDetails' = {}
    /\ UNCHANGED <<coreVars, statsVars, pc, buckets, pageVars, roiVars,
                   drillLinesInSummary>>

\* The drill-down resumes after its delays and prints its lines: console.log
\* appends them to whatever the global activeView is at that moment.
DrillPrint ==
    /\ drillPc = "printing"
    /\ drillPc' = "idle"
    /\ IF activeView = "details"
       THEN /\ drillLinesInDetails' = drillLinesInDetails \cup {drillOwner}
            /\ UNCHANGED drillLinesInSummary
       ELSE /\ drillLinesInSummary' = drillLinesInSummary \cup {drillOwner}
            /\ UNCHANGED drillLinesInDetails
    /\ UNCHANGED <<coreVars, statsVars, pc, viewVars, pageVars, roiVars, drillOwner>>

\* A click on "Return to Summary", the last line a drill-down prints.
ReturnToSummary ==
    /\ activeView = "details"
    /\ drillPc = "idle"
    /\ drillOwner = clicks
    /\ activeView' = "summary"
    /\ UNCHANGED <<coreVars, statsVars, pc, buckets, subBuckets, drillRuns,
                   pageVars, roiVars, drillVars>>

Next ==
    \/ RunBegin
    \/ MonthBegin
    \/ Trade
    \/ MonthEnd
    \/ RunEnd
    \/ Report
    \/ PrintSummary

Spec == Init /\ [][Next]_vars

----------------------------------------------------------------------------
(* The report on its own: the state in which runMonteCarlo returns is      *)
(* drawn directly, so that enough runs for the histogram are present.      *)

RECURSIVE Repeat(_, _)
Repeat(x, n) == IF n <= 0 THEN <<>> ELSE <<x>> \o Repeat(x, n - 1)

\* The run runMonteCarlo returns for a lifetime that ended at this balance.
RunWithBalance(b) == [finalBalance |-> b, survived |-> b > 0, monthlyData |-> <<>>]

\* n0, n1, n2, n3 runs at the four balances, rising or falling.
ArrangedRuns(balances, counts, arrangement) ==
    LET asc == Repeat(RunWithBalance(balances[1]), counts[1])
                 \o Repeat(RunWithBalance(balances[2]), counts[2])
                 \o Repeat(RunWithBalance(balances[3]), counts[3])
                 \o Repeat(RunWithBalance(balances[4]), counts[4])
    IN  IF arrangement = "asc" THEN asc
        ELSE [k \in 1 .. Len(asc) |-> asc[Len(asc) + 1 - k]]

StatParams(runs) ==
    [startingBalance |-> 1, riskPerTrade |-> <<1, 1>>, tradesPerWeek |-> 1,
     winRate |-> 1, riskToReward |-> 1, totalMonthlyExpenses |-> 0,
     expensesBegin |-> 0, simulationTimeline |-> MonthsPerYear,
     simulationRuns |-> runs, myFeePercentage |-> 0]

InitStats ==
    /\ variant = "app"
    /\ \/ \E n \in 1 .. MaxSmallRuns :
            allRunsResults \in [1 .. n -> {RunWithBalance(StatBalances[k]) : k \in DOMAIN StatBalances}]
       \/ \E n \in {HistogramRuns, HistogramRuns + 1}, arr \in ArrangementSet :
            \E n0 \in 0 .. n : \E n1 \in 0 .. n - n0 : \E n2 \in 0 .. n - n0 - n1 :
                allRunsResults = ArrangedRuns(StatBalances,
                                              <<n0, n1, n2, n - n0 - n1 - n2>>, arr)
       \/ \E n3 \in 0 .. 1 : \E n0 \in 0 .. LargeRuns - n3 :
            \E n1 \in 0 .. Min2(MaxFew, LargeRuns - n3 - n0) :
                allRunsResults = ArrangedRuns(LargeBalances,
                                              <<n0, n1, LargeRuns - n3 - n0 - n1, n3>>,
                                              "desc")
    /\ params = StatParams(Len(allRunsResults))
    /\ pc = "mc"
    /\ runIdx = Len(allRunsResults)
    /\ monthIdx = 0
    /\ currentBalance = 0
    /\ resultsArray = <<>>
    /\ tradeIdx = 0
    /\ tradeBalance = 0
    /\ lastDraw = 0
    /\ simulationResults = <<>>
    /\ survivingRuns = <<>>
    /\ totalRuinCount = 0
    /\ profitableCount = 0
    /\ losingCount = 0
    /\ ViewEmpty
    /\ isSummaryPrinting = FALSE
    /\ simulationButtonDisabled = TRUE
    /\ printed = {"running"}
    /\ runMonteCarloCalls = 1
    /\ clicks = 1
    /\ RoiIdle
    /\ DrillIdle

NextStats ==
    \/ Report
    \/ PrintSummary
    \/ ClickBucket
    \/ ClickScenario
    \/ DrillPrint
    \/ ReturnToSummary

SpecStats == InitStats /\ [][NextStats]_vars

----------------------------------------------------------------------------
(* calculateAnnualizedROI on its own *)

CoreIdle ==
    /\ runIdx = 0
    /\ allRunsResults = <<>>
    /\ monthIdx = 0
    /\ currentBalance = 0
    /\ resultsArray = <<>>
    /\ tradeIdx = 0
    /\ tradeBalance = 0
    /\ lastDraw = 0
    /\ simulationResults = <<>>
    /\ survivingRuns = <<>>
    /\ totalRuinCount = 0
    /\ profitableCount = 0
    /\ losingCount = 0

InitROI ==
    /\ variant = "app"
    /\ params = StatParams(1)
    /\ pc = "roi"
    /\ CoreIdle
    /\ ViewEmpty
    /\ isSummaryPrinting = FALSE
    /\ simulationButtonDisabled = TRUE
    /\ printed = {"running"}
    /\ runMonteCarloCalls = 1
    /\ clicks = 1
    /\ roiInput \in [finalBalance : RoiFinalBalanceSet,
                     startingBalance : RoiStartingBalanceSet,
                     timelineMonths : RoiTimelineSet]
    /\ roiOutput = <<>>
    /\ DrillIdle

CallROI ==
    /\ pc = "roi"
    /\ roiOutput' = CalculateAnnualizedROI(roiInput.finalBalance,
                                           roiInput.startingBalance,
                                           roiInput.timelineMonths)
    /\ pc' = "roi_ret"
    /\ UNCHANGED <<coreVars, statsVars, viewVars, pageVars, roiInput, drillVars>>

NextROI == CallROI

SpecROI == InitROI /\ [][NextROI]_vars

----------------------------------------------------------------------------
(* The Run button: runSimulation from the click to runMonteCarlo *)

\* Mutant of ValidationFails: the limit itself is refused.
ValidationFailsAtLimit(simulationRuns) == simulationRuns >= MaxSimulationRuns

\* getAndValidateInputs returns an error string: params.simulationRuns > 100000
ValidationFails(simulationRuns) == simulationRuns > MaxSimulationRuns

RequestedRunsSet == (0 .. MaxRuns) \cup {MaxSimulationRuns, MaxSimulationRuns + 1}

PageParams(tpw, runs) ==
    [startingBalance |-> 1, riskPerTrade |-> <<1, 1>>, tradesPerWeek |-> tpw,
     winRate |-> 1, riskToReward |-> 2, totalMonthlyExpenses |-> 0,
     expensesBegin |-> 0, simulationTimeline |-> 1,
     simulationRuns |-> runs, myFeePercentage |-> 1]

InitUI ==
    /\ variant \in VariantSet
    /\ params = PageParams(0, 0)
    /\ pc = "idle"
    /\ CoreIdle
    /\ ViewEmpty
    /\ isSummaryPrinting = FALSE
    /\ simulationButtonDisabled = FALSE
    /\ printed = {}
    /\ runMonteCarloCalls = 0
    /\ clicks = 0
    /\ RoiIdle
    /\ DrillIdle

\* A click on Run: runSimulation up to its first await.
ClickRun ==
    /\ ~simulationButtonDisabled
    /\ clicks < MaxClicks
    /\ clicks' = clicks + 1
    /\ simulationButtonDisabled' = TRUE
    /\ \E tpw \in TradesPerWeekSet, runs \in RequestedRunsSet :
        /\ params' = PageParams(tpw, runs)
        /\ IF ValidationFails(runs)
           THEN pc' = "aborting" /\ printed' = {"aborted"}
           ELSE pc' = "starting" /\ printed' = {"running"}
    /\ runIdx' = 0
    /\ allRunsResults' = <<>>
    /\ monthIdx' = 0
    /\ currentBalance' = 0
    /\ resultsArray' = <<>>
    /\ tradeIdx' = 0
    /\ tradeBalance' = 0
    /\ lastDraw' = 0
    /\ simulationResults' = <<>>
    /\ survivingRuns' = <<>>
    /\ totalRuinCount' = 0
    /\ profitableCount' = 0
    /\ losingCount' = 0
    /\ buckets' = <<>>
    /\ subBuckets' = <<>>
    /\ drillRuns' = <<>>
    /\ activeView' = "summary"
    /\ drillLinesInSummary' = {}
    /\ drillLinesInDetails' = {}
    /\ UNCHANGED <<variant, isSummaryPrinting, runMonteCarloCalls, roiVars,
                   drillPc, drillOwner>>

\* After the delay: the validation message is printed, Run is enabled again.
AbortEnd ==
    /\ pc = "aborting"
    /\ printed' = printed \cup {"error"}
    /\ simulationButtonDisabled' = FALSE
    /\ pc' = "aborted"
    /\ UNCHANGED <<coreVars, statsVars, viewVars, isSummaryPrinting,
                   runMonteCarloCalls, clicks, roiVars, drillVars>>

\* After the delays: runMonteCarlo(params, params.simulationRuns) is called.
StartMonteCarlo ==
    /\ pc = "starting"
    /\ runMonteCarloCalls' = runMonteCarloCalls + 1
    /\ pc' = "mc"
    /\ UNCHANGED <<coreVars, statsVars, viewVars, isSummaryPrinting,
                   simulationButtonDisabled, printed, clicks, roiVars, drillVars>>

NextUI ==
    \/ ClickRun
    \/ AbortEnd
    \/ StartMonteCarlo
    \/ Next
    \/ ClickScenario
    \/ DrillPrint
    \/ ReturnToSummary

SpecUI == InitUI /\ [][NextUI]_vars

----------------------------------------------------------------------------
(* Well-formedness of the model itself *)

\* Every amountRisked the code computes is a whole number of money units.
ArithmeticExact ==
    (pc = "trade" /\ TradeLoopContinues(tradeIdx, TradesPerMonth(params.tradesPerWeek),
                                         tradeBalance))
        => (tradeBalance * params.riskPerTrade[1]) % params.riskPerTrade[2] = 0

----------------------------------------------------------------------------
(* States at which a function of the core is about to return *)

\* calculateMonthlyProfit has left its loop and returns tradeBalance - currentBalance.
MonthReturning ==
    /\ pc = "trade"
    /\ ~TradeLoopContinues(tradeIdx, TradesPerMonth(params.tradesPerWeek), tradeBalance)

\* accumulateProfits has left its loop and returns resultsArray.
LifetimeReturning ==
    \/ pc = "acc_ret"
    \/ pc = "acc" /\ ~(monthIdx < params.simulationTimeline)

\* runMonteCarlo has left its loop and returns allRunsResults.
MonteCarloReturned ==
    \/ pc \in {"done", "threw", "complete"}
    \/ pc = "mc" /\ ~MonteCarloLoopContinues(runIdx, params.simulationRuns)

SetMin(S) == CHOOSE x \in S : \A y \in S : x <= y

\* riskPerTrade denominator, and the numerators of the win and loss factors over it
RiskDen == params.riskPerTrade[2]
WinFactorNum ==
    RiskDen + params.riskPerTrade[1] * (params.riskToReward - params.myFeePercentage)
LossFactorNum ==
    RiskDen - params.riskPerTrade[1] * (1 + params.myFeePercentage)

----------------------------------------------------------------------------
(* C1 *)

SurvivedIffPositiveBalance ==
    \A k \in DOMAIN allRunsResults :
        allRunsResults[k].survived <=> (allRunsResults[k].finalBalance > 0)

\* C1 (as claimed, on valid parameters: startingBalance > 0): every RunResult
\* in runMonteCarlo's result has survived true if and only if its finalBalance
\* is > 0; a run whose last month ended at endBalance <= 0 has survived false.
C1_SurvivedIffPositiveBalance ==
    params.startingBalance > 0 => SurvivedIffPositiveBalance

\* The same statement restricted to the app.js version, which satisfies it.
C1_HoldsInAppVersion == variant = "app" => SurvivedIffPositiveBalance

----------------------------------------------------------------------------
(* C2 *)

\* C2: when runMonteCarlo returns, its result holds exactly simulationRuns
\* RunResults, whether the trials were ruined early, ran the full timeline or
\* produced no month at all.
C2_ExactlyNumRunsResults ==
    MonteCarloReturned => Len(allRunsResults) = params.simulationRuns

\* Two runs were returned, one cut short by ruin and one of full length.
C2_Witness ==
    /\ pc = "done"
    /\ Len(allRunsResults) = 2
    /\ \E a, b \in DOMAIN allRunsResults :
        /\ Len(allRunsResults[a].monthlyData) < params.simulationTimeline
        /\ Len(allRunsResults[b].monthlyData) = params.simulationTimeline

----------------------------------------------------------------------------
(* C3 *)

\* C3: in the month sequence of accumulateProfits, each endBalance is the
\* previous month's endBalance (startingBalance for the first month) plus the
\* month's netProfit.
C3_EndBalanceChain ==
    \A i \in DOMAIN resultsArray :
        resultsArray[i].endBalance =
            (IF i = 1 THEN params.startingBalance ELSE resultsArray[i - 1].endBalance)
            + resultsArray[i].netProfit

\* Two months were recorded, the second one with expenses charged on a trading result.
C3_Witness ==
    /\ Len(resultsArray) = 2
    /\ resultsArray[2].grossProfit # 0
    /\ resultsArray[2].expensesDeducted > 0
    /\ resultsArray[1].netProfit # 0

----------------------------------------------------------------------------
(* C4 *)

\* C4: with startingBalance > 0 the sequence accumulateProfits returns is as
\* long as the timeline unless a month ended at a balance <= 0, and then it
\* ends with the first such month: it is never longer than the timeline and is
\* shorter only if its last endBalance is <= 0.
C4_LengthIsTimelineOrFirstRuin ==
    (LifetimeReturning /\ params.startingBalance > 0) =>
        LET n == Len(resultsArray)
            ruinMonths == {i \in DOMAIN resultsArray : resultsArray[i].endBalance <= 0}
        IN  /\ n <= params.simulationTimeline
            /\ n < params.simulationTimeline => resultsArray[n].endBalance <= 0
            /\ n = IF ruinMonths = {} THEN params.simulationTimeline
                                       ELSE SetMin(ruinMonths)

\* A lifetime that started solvent returns after one month of a two-month timeline.
C4_Witness ==
    /\ LifetimeReturning
    /\ params.startingBalance > 0
    /\ params.simulationTimeline = 2
    /\ Len(resultsArray) = 1

----------------------------------------------------------------------------
(* C5 *)

\* C5: every MonthRecord has expensesDeducted equal to totalMonthlyExpenses
\* when the month number has reached an expensesBegin >= 1, and equal to 0
\* otherwise, whatever the sign of grossProfit.
C5_ExpensesDeductedExact ==
    \A i \in DOMAIN resultsArray :
        resultsArray[i].expensesDeducted =
            IF params.expensesBegin >= 1 /\ i >= params.expensesBegin
            THEN params.totalMonthlyExpenses
            ELSE 0

\* A month with a trading loss was charged the full monthly expenses, after a
\* month that was charged nothing.
C5_Witness ==
    /\ Len(resultsArray) = 2
    /\ resultsArray[1].expensesDeducted = 0
    /\ resultsArray[2].grossProfit < 0
    /\ params.totalMonthlyExpenses > 0
    /\ resultsArray[2].expensesDeducted = params.totalMonthlyExpenses

----------------------------------------------------------------------------
(* C6 *)

\* C6: for 0-based month index i, netProfit is grossProfit - monthlyExpenses
\* when expensesBegin >= 1 and i + 1 >= expensesBegin, and grossProfit
\* otherwise; so no month before month number expensesBegin is charged and an
\* expensesBegin <= 0 charges no month.  (resultsArray[m] is month index m - 1.)
C6_NetProfitPolicy ==
    \A m \in DOMAIN resultsArray :
        LET i == m - 1
            rec == resultsArray[m]
        IN  /\ (params.expensesBegin >= 1 /\ i + 1 >= params.expensesBegin)
                  => rec.netProfit = rec.grossProfit - params.totalMonthlyExpenses
            /\ ~(params.expensesBegin >= 1 /\ i + 1 >= params.expensesBegin)
                  => rec.netProfit = rec.grossProfit
            /\ (m < params.expensesBegin \/ params.expensesBegin <= 0)
                  => rec.netProfit = rec.grossProfit

\* Expenses begin in month 2: month 1 keeps its gross profit, month 2 is charged.
C6_Witness ==
    /\ params.expensesBegin = 2
    /\ params.totalMonthlyExpenses > 0
    /\ Len(resultsArray) = 2
    /\ resultsArray[1].netProfit = resultsArray[1].grossProfit
    /\ resultsArray[2].netProfit = resultsArray[2].grossProfit - params.totalMonthlyExpenses

----------------------------------------------------------------------------
(* C7 *)

\* The value calculateMonthlyProfit returns equals
\* accountBalance * (factorNum / RiskDen)^tradesPerMonth - accountBalance.
ReturnIsClosedForm(factorNum) ==
    LET n == TradesPerMonth(params.tradesPerWeek)
    IN  MonthlyProfitReturn(tradeBalance, currentBalance) * Pow(RiskDen, n)
            = currentBalance * (Pow(factorNum, n) - Pow(RiskDen, n))

\* C7 (as claimed, on valid parameters: accountBalance > 0): with winRate = 1
\* the value returned is balance * (1 + risk * (riskToReward - fee))^trades - balance
\* with trades = 4 * tradesPerWeek.
C7_WinClosedFormAlways ==
    (MonthReturning /\ params.winRate = 2 /\ currentBalance > 0)
        => ReturnIsClosedForm(WinFactorNum)

\* C7 (amended): with winRate = 1 every trade wins whatever the draw, and with
\* accountBalance >= 0 and 1 + risk * (riskToReward - fee) >= 0 the value
\* returned is balance * (1 + risk * (riskToReward - fee))^trades - balance; while
\* the factor is > 0 and the balance > 0 all 4 * tradesPerWeek trades are applied.
C7_WinClosedForm ==
    /\ (pc = "trade" /\ params.winRate = 2 /\ tradeIdx > 0) => IsWin(lastDraw, params.winRate)
    /\ (MonthReturning /\ params.winRate = 2 /\ currentBalance >= 0 /\ WinFactorNum >= 0)
          => ReturnIsClosedForm(WinFactorNum)
    /\ (MonthReturning /\ params.winRate = 2 /\ currentBalance > 0 /\ WinFactorNum > 0)
          => tradeIdx = TradesPerMonth(params.tradesPerWeek)

\* A month of four winning trades with a fee returns; the last draw was the
\* largest one, and the balance grew.
C7_Witness ==
    /\ MonthReturning
    /\ params.winRate = 2
    /\ params.myFeePercentage > 0
    /\ lastDraw = 1
    /\ tradeIdx = 4
    /\ tradeBalance > currentBalance
    /\ currentBalance > 0

----------------------------------------------------------------------------
(* C8 *)

\* C8 (as claimed): on valid parameters with winRate = 0 the value returned is
\* balance * (1 - risk * (1 + fee))^trades - balance, and it is <= 0.
C8_LossClosedFormAlways ==
    (MonthReturning /\ params.winRate = 0 /\ currentBalance > 0)
        => /\ ReturnIsClosedForm(LossFactorNum)
           /\ MonthlyProfitReturn(tradeBalance, currentBalance) <= 0

\* C8 (amended): on valid parameters with winRate = 0 every trade loses and the
\* value returned is <= 0; it is balance * (1 - risk * (1 + fee))^trades - balance
\* provided risk * (1 + fee) <= 1; otherwise the first loss takes the balance
\* below 0, the loop stops and the value is -balance * risk * (1 + fee).
C8_LossClosedForm ==
    /\ (pc = "trade" /\ params.winRate = 0 /\ tradeIdx > 0) => ~IsWin(lastDraw, params.winRate)
    /\ (MonthReturning /\ params.winRate = 0 /\ currentBalance > 0)
          => /\ MonthlyProfitReturn(tradeBalance, currentBalance) <= 0
             /\ LossFactorNum >= 0 => ReturnIsClosedForm(LossFactorNum)
             /\ (LossFactorNum < 0 /\ params.tradesPerWeek > 0)
                   => /\ tradeIdx = 1
                      /\ MonthlyProfitReturn(tradeBalance, currentBalance) * RiskDen
                            = -(currentBalance * params.riskPerTrade[1]
                                    * (1 + params.myFeePercentage))

\* A month of four losing trades that leaves a positive balance returns.
C8_Witness ==
    /\ MonthReturning
    /\ params.winRate = 0
    /\ tradeIdx = 4
    /\ tradeBalance > 0
    /\ tradeBalance < currentBalance

\* A month stopped after its first loss returns a balance below 0.
C8_WitnessOverRisked ==
    /\ MonthReturning
    /\ params.winRate = 0
    /\ LossFactorNum < 0
    /\ tradeIdx = 1
    /\ tradeBalance < 0

----------------------------------------------------------------------------
(* C9 *)

\* C9: inside calculateMonthlyProfit a trade is only ever applied to a balance
\* > 0; once the balance is <= 0 it is not changed again and the value returned
\* is that balance minus accountBalance (0 when accountBalance <= 0); a month
\* whose balance stays > 0 applies exactly 4 * tradesPerWeek trades.
C9_NoTradeAfterRuin ==
    [][ /\ (pc = "trade" /\ tradeIdx' # tradeIdx /\ pc' = "trade") => tradeBalance > 0
        /\ (pc = "trade" /\ tradeBalance <= 0)
              => /\ tradeBalance' = tradeBalance
                 /\ tradeIdx' = tradeIdx
                 /\ Len(resultsArray') = Len(resultsArray) + 1
        /\ (pc = "trade" /\ Len(resultsArray') = Len(resultsArray) + 1)
              => /\ resultsArray'[Len(resultsArray')].grossProfit
                        = tradeBalance - currentBalance
                 /\ currentBalance <= 0
                        => resultsArray'[Len(resultsArray')].grossProfit = 0
                 /\ tradeBalance > 0 => tradeIdx = 4 * params.tradesPerWeek
                 /\ tradeIdx <= 4 * params.tradesPerWeek
      ]_vars

\* The loop has stopped on a balance <= 0 after two of the month's four trades.
C9_Witness ==
    /\ pc = "trade"
    /\ tradeBalance <= 0
    /\ tradeIdx = 2
    /\ TradesPerMonth(params.tradesPerWeek) = 4

----------------------------------------------------------------------------
(* C10 *)

\* C10 (as claimed): after the report, every run is counted in exactly one of
\* ruined, losing-but-solvent and profitable, so the three counts sum to N, and
\* survivingRuns holds N - totalRuinCount runs.
C10_RatesPartitionRuns ==
    (pc = "done" /\ params.startingBalance > 0) =>
        /\ totalRuinCount + losingCount + profitableCount = Len(simulationResults)
        /\ Len(survivingRuns) = Len(simulationResults) - totalRuinCount

\* The part of C10 that the code satisfies: no run is counted twice, and the
\* runs counted in no class are those that ended exactly at startingBalance.
C10_CountsMissBreakEvenRuns ==
    (pc = "done" /\ params.startingBalance > 0) =>
        LET K(r) == r.finalBalance = params.startingBalance
        IN  totalRuinCount + losingCount + profitableCount
                = Len(simulationResults) - Len(SelectSeq(simulationResults, K))

----------------------------------------------------------------------------
(* The report: histogram, scenarios, drill-down *)

\* The summary statistics have been computed from the returned runs.
Reported == pc \in {"done", "complete"}

RECURSIVE SumCounts(_)
SumCounts(bs) == IF bs = <<>> THEN 0 ELSE bs[1].count + SumCounts(Tail(bs))

\* Balance at the 98th-percentile cutoff and the worst balance, read from
\* the sorted result directly.
CoreMax == simulationResults[((Len(simulationResults) * 98) \div 100) + 1].finalBalance

CoreMin == simulationResults[1].finalBalance

AllBalancesEqual ==
    \A j, k \in DOMAIN simulationResults :
        simulationResults[j].finalBalance = simulationResults[k].finalBalance

\* C11 (as stated): whenever more than 10 runs are reported, the counts of
\* the histogram buckets sum to the number of runs N.
C11_BucketCountsSumToRuns ==
    (Reported /\ Len(simulationResults) > 10)
        => SumCounts(buckets) = Len(simulationResults)

\* C11, where the code does build buckets (core range positive): the counts
\* sum to N and every run is a member of exactly one bucket.
C11_CountsSumWhenBucketsBuilt ==
    (Reported /\ Len(simulationResults) > 10 /\ CoreMax > CoreMin)
        => /\ SumCounts(buckets) = Len(simulationResults)
           /\ \A b \in DOMAIN buckets : buckets[b].count = Len(buckets[b].runs)
           /\ \A v \in {simulationResults[k].finalBalance : k \in DOMAIN simulationResults} :
                Cardinality({k \in DOMAIN simulationResults :
                                simulationResults[k].finalBalance = v})
                  = SumCounts([b \in DOMAIN buckets |->
                        [count |-> Cardinality({k \in DOMAIN buckets[b].runs :
                                        buckets[b].runs[k].finalBalance = v})]])
           /\ \A v \in {simulationResults[k].finalBalance : k \in DOMAIN simulationResults} :
                Cardinality({b \in DOMAIN buckets :
                                \E k \in DOMAIN buckets[b].runs :
                                    buckets[b].runs[k].finalBalance = v}) = 1

\* C13 (as stated): when all N > 10 runs have the same finalBalance, the
\* histogram is a single bucket holding all N runs.
C13_SingleBucketWhenAllEqual ==
    (Reported /\ Len(simulationResults) > 10 /\ AllBalancesEqual)
        => /\ Len(buckets) = 1
           /\ buckets[1].count = Len(simulationResults)

\* What the code does in the case of C13: it builds no bucket at all.
C13_NoBucketWhenCoreRangeZero ==
    (Reported /\ Len(simulationResults) > 10 /\ CoreMax = CoreMin)
        => buckets = <<>>

\* C14: when N > 10 and coreMax > coreMin the histogram, as built, is
\* exactly 10 buckets: 9 core buckets of width (coreMax - coreMin)/9 that
\* tile [coreMin, coreMax) without gap or overlap, then one outlier bucket
\* [coreMax, best.finalBalance].  (Bounds are numerators over 9.)
C14_TenBucketsTileCoreRange ==
    (pc = "done" /\ Len(simulationResults) > 10 /\ CoreMax > CoreMin)
        => /\ Len(buckets) = 10
           /\ buckets[1].min = 9 * CoreMin
           /\ buckets[9].max = 9 * CoreMax
           /\ \A i \in 1 .. 9 :
                /\ ~buckets[i].isOutlierBucket
                /\ buckets[i].max - buckets[i].min = CoreMax - CoreMin
                /\ buckets[i].max = buckets[i + 1].min
                /\ \A k \in DOMAIN buckets[i].runs :
                     /\ buckets[i].min <= 9 * buckets[i].runs[k].finalBalance
                     /\ 9 * buckets[i].runs[k].finalBalance < buckets[i].max
           /\ buckets[10].isOutlierBucket
           /\ buckets[10].min = 9 * CoreMax
           /\ buckets[10].max = 9 * simulationResults[Len(simulationResults)].finalBalance
           /\ \A k \in DOMAIN buckets[10].runs :
                buckets[10].runs[k].finalBalance >= CoreMax

\* C14 witness: a ten-bucket histogram whose outlier bucket reaches above
\* coreMax and whose core buckets hold runs in more than one place.
C14_Witness ==
    /\ pc = "done"
    /\ Len(buckets) = 10
    /\ buckets[10].max > buckets[10].min
    /\ buckets[1].count > 0
    /\ \E i \in 2 .. 9 : buckets[i].count > 0

\* Number of returned runs whose balance satisfies the comparison with m.
RunsBelow(m) ==
    Cardinality({k \in DOMAIN allRunsResults : allRunsResults[k].finalBalance < m})

RunsAtMost(m) ==
    Cardinality({k \in DOMAIN allRunsResults : allRunsResults[k].finalBalance <= m})

\* C15: after the ascending sort of N >= 1 runs, worst has the minimum and
\* best the maximum finalBalance of the returned runs, median is the element
\* at index floor(N/2), i.e. the upper median, and worst <= median <= best.
C15_WorstMedianBest ==
    Reported =>
        LET N == Len(simulationResults)
            worst == WorstCaseOfAll(simulationResults)
            best == BestCaseOfAll(simulationResults)
            median == MedianOfAll(simulationResults)
        IN  /\ N = Len(allRunsResults)
            /\ N >= 1
            /\ \A k \in 1 .. N - 1 :
                 simulationResults[k].finalBalance <= simulationResults[k + 1].finalBalance
            /\ \E k \in DOMAIN allRunsResults : allRunsResults[k] = worst
            /\ \E k \in DOMAIN allRunsResults : allRunsResults[k] = best
            /\ \A k \in DOMAIN allRunsResults :
                 /\ worst.finalBalance <= allRunsResults[k].finalBalance
                 /\ allRunsResults[k].finalBalance <= best.finalBalance
            /\ median = simulationResults[(N \div 2) + 1]
            /\ RunsBelow(median.finalBalance) <= N \div 2
            /\ RunsAtMost(median.finalBalance) >= (N \div 2) + 1
            /\ worst.finalBalance <= median.finalBalance
            /\ median.finalBalance <= best.finalBalance

\* C15 witness: an even number of runs, returned out of order, whose two
\* middle balances differ.
C15_Witness ==
    /\ Reported
    /\ Len(simulationResults) = 2
    /\ allRunsResults[1].finalBalance > allRunsResults[2].finalBalance
    /\ MedianOfAll(simulationResults).finalBalance
         > WorstCaseOfAll(simulationResults).finalBalance

\* A run's balance lies in a sub-bucket: [min, max), the last one [min, max].
InSubBucket(finalBalance, sb, max) ==
    /\ sb.min <= 10 * finalBalance
    /\ \/ 10 * finalBalance < sb.max
       \/ sb.max = 10 * max /\ 10 * finalBalance = sb.max

\* C16: a drill-down on runs whose max finalBalance exceeds the min puts
\* every run in exactly one of 10 equal-width sub-buckets spanning
\* [min, max]; the counts sum to the subset size and every percentage is
\* count / subset size * 100.  (Bounds are numerators over 10.)
C16_DrillDownPartitionsSubset ==
    (activeView = "details"
       /\ drillRuns[Len(drillRuns)].finalBalance > drillRuns[1].finalBalance)
        => LET min == drillRuns[1].finalBalance
               max == drillRuns[Len(drillRuns)].finalBalance
           IN  /\ Len(subBuckets) = 10
               /\ SumCounts(subBuckets) = Len(drillRuns)
               /\ {subBuckets[i].min : i \in 1 .. 10}
                    = {10 * min + j * (max - min) : j \in 0 .. 9}
               /\ \A i \in 1 .. 10 :
                    /\ subBuckets[i].max - subBuckets[i].min = max - min
                    /\ subBuckets[i].count
                         = Cardinality({k \in DOMAIN drillRuns :
                              InSubBucket(drillRuns[k].finalBalance, subBuckets[i], max)})
                    /\ subBuckets[i].percentage
                         = <<subBuckets[i].count * 100, Len(drillRuns)>>
               /\ \A k \in DOMAIN drillRuns :
                    Cardinality({i \in 1 .. 10 :
                        InSubBucket(drillRuns[k].finalBalance, subBuckets[i], max)}) = 1

\* C16 witness: a drill-down into a proper subset of the runs that spreads
\* over more than one sub-bucket.
C16_Witness ==
    /\ activeView = "details"
    /\ Len(subBuckets) = 10
    /\ Len(drillRuns) < Len(simulationResults)
    /\ \E i, j \in 1 .. 10 :
         i # j /\ subBuckets[i].count > 0 /\ subBuckets[j].count > 0

\* C18 (as stated): every sub-bucket line shown in a drill-down that holds
\* at least 25% of the drilled-into runs is clickable.
C18_SubBucketsClickable ==
    activeView = "details"
        => \A i \in DOMAIN subBuckets :
             (subBuckets[i].count > 0
                /\ subBuckets[i].percentage[1] >= 25 * subBuckets[i].percentage[2])
               => subBuckets[i].clickable

----------------------------------------------------------------------------
(* calculateAnnualizedROI, input validation, the repository's own test *)

\* C12 (as stated): with simulationRuns = 0 the report step does not throw.
C12_ZeroRunsReportDoesNotThrow ==
    (params.simulationRuns = 0 /\ params.startingBalance > 0) => pc # "threw"

\* C17 (as stated): with timelineMonths <= 0 and startingBalance > 0 the
\* function returns totalReturn * 100.
C17_NonPositiveTimelineGivesTotalReturn ==
    (pc = "roi_ret" /\ roiInput.timelineMonths <= 0 /\ roiInput.startingBalance > 0)
        => RoiEqual(roiOutput, <<(roiInput.finalBalance - roiInput.startingBalance) * 100,
                                 roiInput.startingBalance>>)

\* What the code returns in the case of C17: zero.
C17_NonPositiveTimelineGivesZero ==
    (pc = "roi_ret" /\ roiInput.timelineMonths <= 0)
        => RoiEqual(roiOutput, <<0, 1>>)

\* C19: a request for more than 100000 runs aborts: runMonteCarlo is not
\* called for it, the error is printed and Run is enabled again; a request
\* for exactly 100000 runs is accepted and runMonteCarlo is called.
C19_TooManyRunsAbort ==
    /\ (clicks > 0 /\ params.simulationRuns > 100000)
         => /\ pc \in {"aborting", "aborted"}
            /\ "aborted" \in printed
            /\ runMonteCarloCalls < clicks
            /\ allRunsResults = <<>>
            /\ pc = "aborted" => ("error" \in printed /\ ~simulationButtonDisabled)
    /\ (clicks > 0 /\ params.simulationRuns <= 100000)
         => /\ pc \notin {"aborting", "aborted"}
            /\ "aborted" \notin printed
            /\ pc # "starting" => runMonteCarloCalls >= 1

\* C19, step by step: runMonteCarlo is called only for an accepted request,
\* and an abort never calls it.
C19_CallOnlyWhenAccepted ==
    [][/\ runMonteCarloCalls' # runMonteCarloCalls => params.simulationRuns <= 100000
       /\ pc = "aborting" => (pc' = "aborted" /\ runMonteCarloCalls' = runMonteCarloCalls)]_vars

\* C19 witness: a request above the limit has been aborted and Run is
\* enabled again.
C19_Witness ==
    /\ pc = "aborted"
    /\ params.simulationRuns = 100001
    /\ "error" \in printed
    /\ ~simulationButtonDisabled

\* C19 witness: exactly 100000 runs were accepted and runMonteCarlo was called.
C19_WitnessAtLimit ==
    /\ pc = "mc"
    /\ params.simulationRuns = 100000
    /\ runMonteCarloCalls = clicks

\* The scenario of the repository's test "non-surviving parameters", scaled:
\* the whole balance is risked, a win pays more than the fee, a loss costs
\* the fee on top, expenses are due from the first month, and the win rate
\* is strictly between 0 and 1.
FullRiskScenario ==
    /\ params.startingBalance > 0
    /\ params.riskPerTrade = <<1, 1>>
    /\ params.tradesPerWeek = 1
    /\ params.winRate = 1
    /\ params.riskToReward = 2
    /\ params.myFeePercentage = 1
    /\ params.totalMonthlyExpenses > 0
    /\ params.expensesBegin = 0
    /\ params.simulationTimeline > 0

\* C20 (as stated): in the full-risk scenario no run returned by
\* runMonteCarlo has survived = true.
C20_NoSurvivorAtFullRisk ==
    (MonteCarloReturned /\ FullRiskScenario)
        => \A k \in DOMAIN allRunsResults : ~allRunsResults[k].survived

----------------------------------------------------------------------------
(* Run records, ruin, and the two versions of accumulateProfits *)

\* C21: a lifetime with no month (simulationTimeline = 0) is recorded as
\* finalBalance 0, survived false, monthlyData empty; every other run has
\* the endBalance of its last month as finalBalance and the whole month
\* sequence accumulateProfits returned as monthlyData.
C21_RunResultOfLifetime ==
    /\ \A k \in DOMAIN allRunsResults :
         LET run == allRunsResults[k]
         IN  /\ (run.monthlyData = <<>>) <=> (params.simulationTimeline = 0)
             /\ run.monthlyData = <<>>
                  => run = [finalBalance |-> 0, survived |-> FALSE, monthlyData |-> <<>>]
             /\ run.monthlyData # <<>>
                  => run.finalBalance = run.monthlyData[Len(run.monthlyData)].endBalance
    /\ (pc = "mc" /\ runIdx >= 1) => allRunsResults[runIdx].monthlyData = resultsArray

\* C21 witness: a run without months has been recorded.
C21_Witness ==
    /\ pc = "mc"
    /\ runIdx >= 1
    /\ params.simulationTimeline = 0
    /\ allRunsResults[runIdx].finalBalance = 0

\* C21 witness: a run of two months with different end balances has been recorded.
C21_WitnessTwoMonths ==
    /\ pc = "mc"
    /\ runIdx >= 1
    /\ Len(resultsArray) = 2
    /\ resultsArray[1].endBalance # resultsArray[2].endBalance
    /\ allRunsResults[runIdx].finalBalance = resultsArray[2].endBalance

AllButLastPositive(months) ==
    \A i \in 1 .. Len(months) - 1 : months[i].endBalance > 0

\* C22: with startingBalance > 0 every record but the last of a month
\* sequence has endBalance > 0: the first month that ends at or below 0 is
\* appended, and no month is simulated after it.
C22_OnlyLastMonthCanBeRuin ==
    params.startingBalance > 0
        => /\ AllButLastPositive(resultsArray)
           /\ \A k \in DOMAIN allRunsResults : AllButLastPositive(allRunsResults[k].monthlyData)
           /\ (pc \in {"acc", "trade"} /\ resultsArray # <<>>)
                => resultsArray[Len(resultsArray)].endBalance > 0
           /\ pc = "acc_ret"
                => (resultsArray # <<>> /\ resultsArray[Len(resultsArray)].endBalance <= 0)

\* C22 witness: a lifetime of two planned months was returned after its
\* first month ended in ruin.
C22_Witness ==
    /\ pc = "mc"
    /\ runIdx >= 1
    /\ params.startingBalance > 0
    /\ params.simulationTimeline = 2
    /\ Len(resultsArray) = 1
    /\ resultsArray[1].endBalance <= 0

\* risk * (1 + fee) < 1, and no month is ever charged expenses
SafeParameters ==
    /\ params.startingBalance > 0
    /\ params.riskPerTrade[1] * (1 + params.myFeePercentage) < params.riskPerTrade[2]
    /\ params.expensesBegin <= 0 \/ params.totalMonthlyExpenses = 0

\* C25: with startingBalance > 0, riskPerTrade * (1 + fee) < 1 and no
\* expenses charged, the balance is > 0 after every trade and every month,
\* every lifetime has exactly simulationTimeline records, and none is ruined.
C25_NoRuinWithoutOverRisk ==
    SafeParameters
        => /\ pc = "trade" => tradeBalance > 0
           /\ pc \in {"acc", "trade"} => currentBalance > 0
           /\ pc # "acc_ret"
           /\ \A i \in DOMAIN resultsArray : resultsArray[i].endBalance > 0
           /\ \A k \in DOMAIN allRunsResults :
                /\ Len(allRunsResults[k].monthlyData) = params.simulationTimeline
                /\ \A i \in DOMAIN allRunsResults[k].monthlyData :
                     allRunsResults[k].monthlyData[i].endBalance > 0

\* C25 witness: a full lifetime of two months with a lost trade in it has
\* been returned.
C25_Witness ==
    /\ SafeParameters
    /\ pc = "mc"
    /\ runIdx >= 1
    /\ Len(resultsArray) = 2
    /\ \E i \in 1 .. 2 : resultsArray[i].grossProfit < 0

\* C26: for every integer expensesBegin the version that tests
\* expensesBegin > 0 and the version that tests expensesBegin >= 1 compute
\* the same record for every month, and end the lifetime alike; from equal
\* draws they therefore return equal month sequences.
C26_VersionsAgreeOnEveryMonth ==
    /\ \A i \in 0 .. MaxTimeline :
         ExpensesActive("app", i, params.expensesBegin)
           = ExpensesActive("main", i, params.expensesBegin)
    /\ MonthReturning
         => LET gross == MonthlyProfitReturn(tradeBalance, currentBalance)
                app == MonthRecord("app", monthIdx, gross, currentBalance, params)
                main == MonthRecord("main", monthIdx, gross, currentBalance, params)
            IN  app = main

\* C26 witness: a month is being closed in which expenses are due.
C26_Witness ==
    /\ MonthReturning
    /\ params.totalMonthlyExpenses > 0
    /\ params.expensesBegin = 1
    /\ ExpensesActive(variant, monthIdx, params.expensesBegin)

\* C26 witness: a month is being closed with expensesBegin = 0.
C26_WitnessZero ==
    /\ MonthReturning
    /\ params.totalMonthlyExpenses > 0
    /\ params.expensesBegin = 0
    /\ monthIdx = 1

----------------------------------------------------------------------------
(* Bucket membership, order inside a bucket, the sign of the ROI *)

BalancesReported == {simulationResults[k].finalBalance : k \in DOMAIN simulationResults}

\* Number of runs with balance v in a sequence of runs.
CountOf(v, runs) == Cardinality({k \in DOMAIN runs : runs[k].finalBalance = v})

\* C23: in the histogram as built, every run with finalBalance >= coreMax is
\* in the outlier bucket and every run with finalBalance < coreMax is in
\* core bucket min(8, floor((finalBalance - coreMin)/bucketWidth)); that
\* index is in 0..8 and the balance lies in the bucket's [min, max).
C23_RunsPlacedByBalance ==
    (pc = "done" /\ Len(simulationResults) > 10 /\ CoreMax > CoreMin)
        => \A v \in BalancesReported :
             IF v >= CoreMax
             THEN /\ CountOf(v, buckets[10].runs) = CountOf(v, simulationResults)
                  /\ \A i \in 1 .. 9 : CountOf(v, buckets[i].runs) = 0
             ELSE LET raw == (9 * (v - CoreMin)) \div (CoreMax - CoreMin)
                      index == IF raw > 8 THEN 8 ELSE raw
                  IN  /\ index \in 0 .. 8
                      /\ CountOf(v, buckets[index + 1].runs) = CountOf(v, simulationResults)
                      /\ \A i \in 1 .. 10 : i # index + 1 => CountOf(v, buckets[i].runs) = 0
                      /\ buckets[index + 1].min <= 9 * v
                      /\ 9 * v < buckets[index + 1].max

\* C23 witness: runs in the outlier bucket and in two core buckets, one of
\* them not the first.
C23_Witness ==
    /\ pc = "done"
    /\ Len(buckets) = 10
    /\ buckets[10].count > 1
    /\ buckets[1].count > 0
    /\ \E i \in 2 .. 9 : buckets[i].count > 1

Ascending(runs) ==
    \A k \in 1 .. Len(runs) - 1 : runs[k].finalBalance <= runs[k + 1].finalBalance

\* C27: the runs of every bucket are in ascending finalBalance order, before
\* and after the buckets are re-sorted by percentage, so the first and last
\* run of a drilled-into bucket carry its minimum and maximum finalBalance.
C27_BucketRunsAscending ==
    /\ Reported => \A b \in DOMAIN buckets : Ascending(buckets[b].runs)
    /\ (activeView = "details" /\ drillRuns # <<>>)
         => /\ Ascending(drillRuns)
            /\ \A k \in DOMAIN drillRuns :
                 /\ drillRuns[1].finalBalance <= drillRuns[k].finalBalance
                 /\ drillRuns[k].finalBalance <= drillRuns[Len(drillRuns)].finalBalance

\* C27 witness: after the re-sort moved the outlier bucket to the front, a
\* bucket whose runs differ in balance is drilled into.
C27_Witness ==
    /\ pc = "complete"
    /\ activeView = "details"
    /\ Len(buckets) = 10
    /\ buckets[1].isOutlierBucket
    /\ drillRuns[1].finalBalance < drillRuns[Len(drillRuns)].finalBalance

Sign(x) == IF x > 0 THEN 1 ELSE IF x < 0 THEN -1 ELSE 0

\* C28 (as stated): for startingBalance > 0 and timelineMonths > 0 the sign
\* of the annualized ROI is the sign of finalBalance - startingBalance.
C28_RoiSignFollowsProfit ==
    (pc = "roi_ret" /\ roiInput.startingBalance > 0 /\ roiInput.timelineMonths > 0)
        => Sign(roiOutput[1]) * Sign(roiOutput[2])
             = Sign(roiInput.finalBalance - roiInput.startingBalance)

\* C28 holds for runs that did not end below zero.
C28_RoiSignForNonNegativeBalance ==
    (pc = "roi_ret" /\ roiInput.startingBalance > 0 /\ roiInput.timelineMonths > 0
       /\ roiInput.finalBalance >= 0)
        => Sign(roiOutput[1]) * Sign(roiOutput[2])
             = Sign(roiInput.finalBalance - roiInput.startingBalance)

----------------------------------------------------------------------------
(* The print lock, the Run button, drill-down output *)

ClickableBucketShown == \E i \in DOMAIN buckets : BucketClickable(buckets[i])

\* C24: while the summary is being printed (isSummaryPrinting is true) no
\* click on a clickable line invokes its drill-down; once printing has
\* finished, a click on a clickable line of the summary does.
C24_NoDrillDownWhilePrinting ==
    /\ isSummaryPrinting
         => /\ pc = "done"
            /\ ~CanClickLine
            /\ activeView = "summary"
            /\ drillPc = "idle"
            /\ drillRuns = <<>>
    /\ (pc = "complete" /\ activeView = "summary" /\ drillPc = "idle")
         => (~isSummaryPrinting /\ CanClickLine)

\* C24, step by step: no step taken while the lock is set opens a drill-down.
C24_LockedStepsLeaveViewAlone ==
    [][isSummaryPrinting => UNCHANGED <<activeView, drillRuns, subBuckets, drillPc>>]_vars

\* C24 witness: the summary with a clickable bucket line is being printed.
C24_Witness ==
    /\ pc = "done"
    /\ isSummaryPrinting
    /\ ClickableBucketShown

\* C24 witness: after the printing a click has opened a bucket drill-down.
C24_WitnessAfterPrinting ==
    /\ pc = "complete"
    /\ ~isSummaryPrinting
    /\ activeView = "details"
    /\ Len(drillRuns) > 1

\* runSimulation has ended: by return after the abort or after "Simulation
\* Complete", or by the throw of the report.
RunSimulationEnded == pc \in {"aborted", "complete", "threw"}

\* C29 (as stated): every invocation of runSimulation that has ended has
\* re-enabled the Run button and released the print lock.
C29_ButtonNeverLeftDisabled ==
    RunSimulationEnded => (~simulationButtonDisabled /\ ~isSummaryPrinting)

\* The only way runSimulation ends with the button still disabled is the
\* throw of the report on zero runs; the print lock is never left set.
C29_OnlyTheThrowLeavesButtonDisabled ==
    /\ (RunSimulationEnded /\ simulationButtonDisabled)
         => (pc = "threw" /\ params.simulationRuns = 0)
    /\ RunSimulationEnded => ~isSummaryPrinting
    /\ simulationButtonDisabled <=> pc \in {"aborting", "starting", "mc", "acc", "trade",
                                            "acc_ret", "done", "threw"}

\* C30 (as stated): the summary and the details view of the latest
\* runSimulation invocation hold drill-down lines of that invocation only.
C30_DrillDownLinesStayInOwnRun ==
    /\ drillLinesInSummary \subseteq {clicks}
    /\ drillLinesInDetails \subseteq {clicks}

====
